---------------------------- MODULE Spec2Model ----------------------------
(***************************************************************************)
(* Row-wise HTTP fetch of polars_api.api.Api: the synchronous executors    *)
(* get / post (one blocking request per row, through map_elements) and the *)
(* concurrent executors aget / apost (one coroutine per row, collected by  *)
(* asyncio.gather under asyncio.run).                                      *)
(*                                                                         *)
(* The HTTP transport (httpx) is an external collaborator: a request that  *)
(* is in flight either completes with some status code and a body text, or *)
(* raises.  The body text is modelled as an echo of the request, so that   *)
(* the text of one row's response can be told from another row's.          *)
(***************************************************************************)
EXTENDS Integers, Sequences, FiniteSets

(* ------------------------------ bounds -------------------------------- *)

\* Largest number of rows of the input column.
MaxRows == 2

(* --------------------------- value domains ---------------------------- *)

\* Python's None: an absent params / body value and the absent marker of a row.
None == <<>>

Urls == {"u1", "u2"}

ParamValues == {None, <<"p1">>}

BodyValues == {None, <<"b1">>}

\* Status codes the transport may answer with, on both sides of [200, 300).
Statuses == {199, 200, 299, 300, 404}

SyncMethods == {"get", "post"}

AsyncMethods == {"aget", "apost"}

Methods == SyncMethods \cup AsyncMethods

SeqsUpTo(S, n) == UNION {[1..k -> S] : k \in 0..n}

Min(a, b) == IF a <= b THEN a ELSE b

VARIABLES
    method,     \* which of get / post / aget / apost is invoked
    x,          \* the URL column
    params,     \* the params column
    body,       \* the body column (post / apost)
    pc,         \* "idle" | "running" | "returned" | "raised": the invocation
    rows,       \* the argument tuples <<url, params, body>>, one per request
    st,         \* per request: "pending" | "inflight" | "done" | "raised" | "cancelled"
    req,        \* per request: the request handed to the transport
    resp,       \* per request: what the transport answered
    ret,        \* per request: the value returned by _get/_post/_aget_one/_apost_one
    clientOf,   \* per request: the AsyncClient it runs on (0: none yet)
    clients,    \* per AsyncClient constructed: "open" | "closed"
    order,      \* request indices in the order their coroutines finished
    result      \* the column returned to the caller (meaningful when pc = "returned")

vars == <<method, x, params, body, pc, rows, st, req, resp, ret,
          clientOf, clients, order, result>>

(* ------------------------ transport (httpx) --------------------------- *)

NoRequest == [kind |-> "none", url |-> "", params |-> None, json |-> None]

GetRequest(url, p) == [kind |-> "GET", url |-> url, params |-> p, json |-> None]

PostRequest(url, p, b) == [kind |-> "POST", url |-> url, params |-> p, json |-> b]

\* The body text a server answers a request with.
Echo(r) == <<r.kind, r.url, r.params, r.json>>

NoResponse == [outcome |-> "none", status_code |-> 0, text |-> None]

TransportError == [outcome |-> "error", status_code |-> 0, text |-> None]

\* The ways a request can complete: any status code, the text of this request.
Responses(r) ==
    {[outcome |-> "response", status_code |-> s, text |-> Echo(r)] : s \in Statuses}

(* --------------------------- pure helpers ----------------------------- *)

_check_status_code(status_code) == status_code >= 200 /\ status_code < 300

\* Api._get: the value returned once httpx.get has answered.
_get_value(r) == IF _check_status_code(r.status_code) THEN r.text ELSE None

_post_value_text(r) == r.text

\* Api._post: the value returned once httpx.post has answered.
_post_value(r) == IF _check_status_code(r.status_code) THEN r.text ELSE None

\* Api._aget_one: return r.text, whatever the status code.
_aget_one_value(r) == r.text

\* Api._apost_one: return r.text, whatever the status code.
_apost_one_value(r) == r.text

\* zip(x, params): stops at the shorter argument.
zip2(a, b) == [i \in 1..Min(Len(a), Len(b)) |-> <<a[i], b[i], None>>]

\* zip(x, params, body): stops at the shortest argument.
zip3(a, b, c) ==
    [i \in 1..Min(Len(a), Min(Len(b), Len(c))) |-> <<a[i], b[i], c[i]>>]

\* pl.struct(url, params[, body]): one struct per row of the column.
struct(a, b, c) == [i \in 1..Len(a) |-> <<a[i], b[i], c[i]>>]

gather_completion_order(rets, ord) == [k \in 1..Len(ord) |-> rets[ord[k]]]

\* asyncio.gather's result: the awaitables' values in the order they were passed.
gather(rets, ord) == [i \in 1..Len(rets) |-> rets[i]]

SyncMayIssueAny(i) == TRUE

\* map_elements calls the lambda row by row; each call blocks until it returns.
SyncMayIssue(i) == \A j \in 1..(i - 1) : st[j] = "done"

\* The event loop starts the tasks gather created in the order it created them.
LoopMayStart(i) == \A j \in 1..(i - 1) : st[j] # "pending"

\* gather creates every task before it is awaited, and the loop runs the first
\* step of each of them before it polls for I/O or wakes the awaiting coroutine.
AllStarted == \A j \in DOMAIN st : st[j] # "pending"

AsyncClient_leak(cs, c) == cs

\* `async with httpx.AsyncClient() as client`: leaving the block closes the client.
AsyncClient_aexit(cs, c) == [cs EXCEPT ![c] = "closed"]

\* `httpx.AsyncClient()`: a new client object.
AsyncClient_new(cs) == Append(cs, "open")

(* ------------------------------- Init --------------------------------- *)

Fresh ==
    /\ pc = "idle"
    /\ rows = <<>>
    /\ st = <<>>
    /\ req = <<>>
    /\ resp = <<>>
    /\ ret = <<>>
    /\ clientOf = <<>>
    /\ clients = <<>>
    /\ order = <<>>
    /\ result = <<>>

\* The columns of one struct column have one length; get / aget take no body.
Init ==
    /\ method \in Methods
    /\ x \in SeqsUpTo(Urls, MaxRows)
    /\ params \in [1..Len(x) -> ParamValues]
    /\ body \in [1..Len(x) -> IF method \in {"post", "apost"} THEN BodyValues ELSE {None}]
    /\ Fresh

\* _aget_all / _apost_all handed lists of any lengths.
InitShape ==
    /\ method \in Methods
    /\ x \in SeqsUpTo(Urls, MaxRows)
    /\ IF method \in AsyncMethods
         THEN /\ params \in SeqsUpTo(ParamValues, MaxRows)
              /\ body \in IF method = "apost" THEN SeqsUpTo(BodyValues, MaxRows)
                                              ELSE {[i \in 1..Len(x) |-> None]}
         ELSE /\ params \in [1..Len(x) -> ParamValues]
              /\ body \in [1..Len(x) -> IF method = "post" THEN BodyValues ELSE {None}]
    /\ Fresh

(* ------------------------------ actions ------------------------------- *)

\* The per-request state of a batch of the given argument tuples.
Launch(rs) ==
    /\ rows' = rs
    /\ st' = [i \in 1..Len(rs) |-> "pending"]
    /\ req' = [i \in 1..Len(rs) |-> NoRequest]
    /\ resp' = [i \in 1..Len(rs) |-> NoResponse]
    /\ ret' = [i \in 1..Len(rs) |-> None]
    /\ clientOf' = [i \in 1..Len(rs) |-> 0]
    /\ pc' = "running"
    /\ UNCHANGED <<method, x, params, body, clients, order, result>>

\* Api.get: map_elements over struct(url, params).
get ==
    /\ method = "get" /\ pc = "idle"
    /\ Launch(struct(x, params, body))

\* Api.post: map_elements over struct(url, params, body).
post ==
    /\ method = "post" /\ pc = "idle"
    /\ Launch(struct(x, params, body))

\* Api._get, first half: httpx.get(url, params=params, timeout=timeout) is issued.
_get_send(i) ==
    /\ method = "get" /\ pc = "running"
    /\ st[i] = "pending"
    /\ SyncMayIssue(i)
    /\ req' = [req EXCEPT ![i] = GetRequest(rows[i][1], rows[i][2])]
    /\ st' = [st EXCEPT ![i] = "inflight"]
    /\ UNCHANGED <<method, x, params, body, pc, rows, resp, ret, clientOf,
                   clients, order, result>>

\* Api._post, first half: httpx.post(url, params=params, json=body, ...) is issued.
_post_send(i) ==
    /\ method = "post" /\ pc = "running"
    /\ st[i] = "pending"
    /\ SyncMayIssue(i)
    /\ req' = [req EXCEPT ![i] = PostRequest(rows[i][1], rows[i][2], rows[i][3])]
    /\ st' = [st EXCEPT ![i] = "inflight"]
    /\ UNCHANGED <<method, x, params, body, pc, rows, resp, ret, clientOf,
                   clients, order, result>>

\* Api._get, second half: httpx.get answers and the status code is checked.
_get_return(i) ==
    /\ method = "get" /\ pc = "running"
    /\ st[i] = "inflight"
    /\ \E r \in Responses(req[i]) :
        /\ resp' = [resp EXCEPT ![i] = r]
        /\ ret' = [ret EXCEPT ![i] = _get_value(r)]
    /\ st' = [st EXCEPT ![i] = "done"]
    /\ order' = Append(order, i)
    /\ UNCHANGED <<method, x, params, body, pc, rows, req, clientOf, clients, result>>

\* Api._post, second half: httpx.post answers and the status code is checked.
_post_return(i) ==
    /\ method = "post" /\ pc = "running"
    /\ st[i] = "inflight"
    /\ \E r \in Responses(req[i]) :
        /\ resp' = [resp EXCEPT ![i] = r]
        /\ ret' = [ret EXCEPT ![i] = _post_value(r)]
    /\ st' = [st EXCEPT ![i] = "done"]
    /\ order' = Append(order, i)
    /\ UNCHANGED <<method, x, params, body, pc, rows, req, clientOf, clients, result>>

\* httpx.get / httpx.post raises: nothing catches it, neither _get / _post nor the
\* lambda nor get / post, so map_elements stops and the caller gets the error.
sync_raise(i) ==
    /\ method \in SyncMethods /\ pc = "running"
    /\ st[i] = "inflight"
    /\ resp' = [resp EXCEPT ![i] = TransportError]
    /\ st' = [st EXCEPT ![i] = "raised"]
    /\ pc' = "raised"
    /\ UNCHANGED <<method, x, params, body, rows, req, ret, clientOf, clients,
                   order, result>>

\* map_elements has called the lambda on every row: the column of its values.
map_elements_return ==
    /\ method \in SyncMethods /\ pc = "running"
    /\ \A i \in DOMAIN st : st[i] = "done"
    /\ result' = [i \in 1..Len(ret) |-> ret[i]]
    /\ pc' = "returned"
    /\ UNCHANGED <<method, x, params, body, rows, st, req, resp, ret, clientOf,
                   clients, order>>

\* Api._aget -> asyncio.run(_aget_all): gather wraps one _aget_one coroutine per
\* element of zip(x, params) in a task, all of them before it is awaited.
_aget_all ==
    /\ method = "aget" /\ pc = "idle"
    /\ Launch(zip2(x, params))

\* Api._apost -> asyncio.run(_apost_all): one _apost_one per zip(x, params, body).
_apost_all ==
    /\ method = "apost" /\ pc = "idle"
    /\ Launch(zip3(x, params, body))

\* Api._aget_one up to its await: a client of its own, then client.get(...).
_aget_one_send(i) ==
    /\ method = "aget" /\ pc = "running"
    /\ st[i] = "pending"
    /\ LoopMayStart(i)
    /\ clients' = AsyncClient_new(clients)
    /\ clientOf' = [clientOf EXCEPT ![i] = Len(clients')]
    /\ req' = [req EXCEPT ![i] = GetRequest(rows[i][1], rows[i][2])]
    /\ st' = [st EXCEPT ![i] = "inflight"]
    /\ UNCHANGED <<method, x, params, body, pc, rows, resp, ret, order, result>>

\* Api._apost_one up to its await: a client of its own, then client.post(...).
_apost_one_send(i) ==
    /\ method = "apost" /\ pc = "running"
    /\ st[i] = "pending"
    /\ LoopMayStart(i)
    /\ clients' = AsyncClient_new(clients)
    /\ clientOf' = [clientOf EXCEPT ![i] = Len(clients')]
    /\ req' = [req EXCEPT ![i] = PostRequest(rows[i][1], rows[i][2], rows[i][3])]
    /\ st' = [st EXCEPT ![i] = "inflight"]
    /\ UNCHANGED <<method, x, params, body, pc, rows, resp, ret, order, result>>

\* Api._aget_one after its await: return r.text; the client is closed on the way out.
_aget_one_return(i) ==
    /\ method = "aget" /\ pc = "running"
    /\ st[i] = "inflight"
    /\ AllStarted
    /\ \E r \in Responses(req[i]) :
        /\ resp' = [resp EXCEPT ![i] = r]
        /\ ret' = [ret EXCEPT ![i] = _aget_one_value(r)]
    /\ clients' = AsyncClient_aexit(clients, clientOf[i])
    /\ st' = [st EXCEPT ![i] = "done"]
    /\ order' = Append(order, i)
    /\ UNCHANGED <<method, x, params, body, pc, rows, req, clientOf, result>>

\* Api._apost_one after its await: return r.text; the client is closed on the way out.
_apost_one_return(i) ==
    /\ method = "apost" /\ pc = "running"
    /\ st[i] = "inflight"
    /\ AllStarted
    /\ \E r \in Responses(req[i]) :
        /\ resp' = [resp EXCEPT ![i] = r]
        /\ ret' = [ret EXCEPT ![i] = _apost_one_value(r)]
    /\ clients' = AsyncClient_aexit(clients, clientOf[i])
    /\ st' = [st EXCEPT ![i] = "done"]
    /\ order' = Append(order, i)
    /\ UNCHANGED <<method, x, params, body, pc, rows, req, clientOf, result>>

\* client.get / client.post raises inside _aget_one / _apost_one: no handler; the
\* `async with` closes the client and the task ends with the exception.  (A
\* malformed URL raises before the coroutine ever suspends, so this step does not
\* wait for the other tasks to start.)
async_raise(i) ==
    /\ method \in AsyncMethods /\ pc = "running"
    /\ st[i] = "inflight"
    /\ resp' = [resp EXCEPT ![i] = TransportError]
    /\ clients' = AsyncClient_aexit(clients, clientOf[i])
    /\ st' = [st EXCEPT ![i] = "raised"]
    /\ order' = Append(order, i)
    /\ UNCHANGED <<method, x, params, body, pc, rows, req, ret, clientOf, result>>

\* Every task has returned: gather's list, asyncio.run returns it, pl.Series wraps it.
gather_return ==
    /\ method \in AsyncMethods /\ pc = "running"
    /\ \A i \in DOMAIN st : st[i] = "done"
    /\ result' = gather(ret, order)
    /\ pc' = "returned"
    /\ UNCHANGED <<method, x, params, body, rows, st, req, resp, ret, clientOf,
                   clients, order>>

\* A task has raised: gather (return_exceptions=False) passes the exception on to
\* _aget_all / _apost_all at once, and asyncio.run raises it to the caller.  The
\* stock asyncio.run cancels the tasks still alive before it raises; the run that
\* nest_asyncio.apply() installs returns and leaves them suspended on the loop.
gather_raise ==
    /\ method \in AsyncMethods /\ pc = "running"
    /\ \E i \in DOMAIN st : st[i] = "raised"
    /\ AllStarted
    /\ pc' = "raised"
    /\ \/ /\ st' = [i \in DOMAIN st |->
                      IF st[i] \in {"pending", "inflight"} THEN "cancelled" ELSE st[i]]
          /\ clients' = [c \in DOMAIN clients |-> "closed"]
       \/ UNCHANGED <<st, clients>>
    /\ UNCHANGED <<method, x, params, body, rows, req, resp, ret, clientOf,
                   order, result>>

Next ==
    \/ get
    \/ post
    \/ \E i \in DOMAIN st : _get_send(i)
    \/ \E i \in DOMAIN st : _post_send(i)
    \/ \E i \in DOMAIN st : _get_return(i)
    \/ \E i \in DOMAIN st : _post_return(i)
    \/ \E i \in DOMAIN st : sync_raise(i)
    \/ map_elements_return
    \/ _aget_all
    \/ _apost_all
    \/ \E i \in DOMAIN st : _aget_one_send(i)
    \/ \E i \in DOMAIN st : _apost_one_send(i)
    \/ \E i \in DOMAIN st : _aget_one_return(i)
    \/ \E i \in DOMAIN st : _apost_one_return(i)
    \/ \E i \in DOMAIN st : async_raise(i)
    \/ gather_return
    \/ gather_raise

\* The public entry points: the columns come out of one struct column.
Spec == Init /\ [][Next]_vars

\* _aget_all / _apost_all called with lists of any lengths.
SpecShape == InitShape /\ [][Next]_vars

(* --------------------------- properties ------------------------------- *)

\* The request the executor builds from row i of the input columns.
RowRequest(i) ==
    IF method \in {"get", "aget"}
      THEN GetRequest(x[i], params[i])
      ELSE PostRequest(x[i], params[i], body[i])

\* The requests that have reached one of the terminal states of a request.
Terminal(i) == st[i] \in {"done", "raised"}

\* What the status rule makes of a completed response.
StatusRule(r) ==
    IF r.status_code >= 200 /\ r.status_code <= 299 THEN r.text ELSE None

\* C1: when aget / apost return a result it has one entry per input row, and entry
\* i is the value of the request built from row i (the text answered to that
\* request, or the absent marker), in whatever order the requests completed.
C1_ResultAlignedWithRows ==
    (method \in AsyncMethods /\ pc = "returned") =>
        /\ Len(result) = Len(x)
        /\ \A i \in 1..Len(x) :
            /\ req[i] = RowRequest(i)
            /\ resp[i].text = Echo(RowRequest(i))
            /\ result[i] = ret[i]
            /\ result[i] \in {Echo(RowRequest(i)), None}

\* C1 witness: two different rows, the second completed first, a result returned.
C1_Witness ==
    /\ method \in AsyncMethods /\ pc = "returned"
    /\ Len(x) = 2
    /\ order = <<2, 1>>
    /\ RowRequest(1) # RowRequest(2)
    /\ result = <<Echo(RowRequest(1)), Echo(RowRequest(2))>>

\* C2: in aget / apost a row whose transport completed is the body text when the
\* status code is in [200, 300) and the absent marker otherwise.
C2_AsyncStatusRule ==
    method \in AsyncMethods =>
        /\ \A i \in DOMAIN st :
            (st[i] = "done") => (ret[i] = StatusRule(resp[i]))
        /\ (pc = "returned") =>
            \A i \in DOMAIN result : result[i] = StatusRule(resp[i])

\* C3: a request whose transport raises gives the absent marker for its row only;
\* the error does not reach the caller, who still gets a full-length column.
C3_TransportErrorAbsorbed ==
    /\ pc # "raised"
    /\ (pc = "returned") =>
        /\ Len(result) = Len(x)
        /\ \A i \in DOMAIN result :
            (resp[i] = TransportError) => (result[i] = None)

\* C4: in aget / apost no request is cancelled or left behind because a sibling
\* failed: a launched request that has not ended is still being run.
C4_NoSiblingAborted ==
    method \in AsyncMethods =>
        \A i \in DOMAIN st :
            /\ st[i] # "cancelled"
            /\ (st[i] \in {"pending", "inflight"}) => (pc = "running")

\* C5: aget / apost hand control back to the caller only after every request has
\* reached a terminal state (success, non-success status or transport error).
C5_ReturnsAfterAllTerminal ==
    (method \in AsyncMethods /\ pc \in {"returned", "raised"}) =>
        \A i \in DOMAIN st : Terminal(i)

\* C6: in get / post a row whose transport completed is the body text when the
\* status code is in [200, 300) and the absent marker otherwise.
C6_SyncStatusRule ==
    method \in SyncMethods =>
        /\ \A i \in DOMAIN st :
            (st[i] = "done") => (ret[i] = StatusRule(resp[i]))
        /\ (pc = "returned") =>
            /\ Len(result) = Len(x)
            /\ \A i \in DOMAIN result : result[i] = StatusRule(resp[i])

\* C6 witness: post has returned a column with a body text for a 200 and the
\* absent marker for a 404.
C6_Witness ==
    /\ method = "post" /\ pc = "returned"
    /\ Len(x) = 2
    /\ resp[1].status_code = 200 /\ result[1] = Echo(RowRequest(1))
    /\ resp[2].status_code = 404 /\ result[2] = None

C8_SyncOneAtATime ==
    method \in SyncMethods =>
        /\ Cardinality({i \in DOMAIN st : st[i] = "inflight"}) <= 1
        /\ \A i \in DOMAIN st :
            (st[i] # "pending") => \A j \in 1..(i - 1) : st[j] = "done"

\* C8 witness: the second request is in flight and the first has returned.
C8_Witness ==
    /\ method \in SyncMethods
    /\ Len(st) = 2
    /\ st[1] = "done" /\ st[2] = "inflight"

\* C9: on the same rows and the same transport outcomes aget returns the column
\* get returns, and apost the column post returns.
C9_AsyncEqualsSync ==
    (method \in AsyncMethods /\ pc = "returned") =>
        result = [i \in 1..Len(x) |->
                    IF method = "aget" THEN _get_value(resp[i])
                                       ELSE _post_value(resp[i])]

\* C10 (as stated): one client per batch, opened once before the first request
\* and closed only after every request has ended.
C10_OneSharedClient ==
    method \in AsyncMethods =>
        /\ Len(clients) <= 1
        /\ \A c \in DOMAIN clients :
            (clients[c] = "closed") =>
                \A i \in DOMAIN st : st[i] \notin {"pending", "inflight"}

\* C10 (amended): every request runs on a client of its own, which is open
\* exactly while that request is in flight; when a result is returned no client
\* is open.
C10_ClientPerRequest ==
    method \in AsyncMethods =>
        /\ \A i \in DOMAIN st :
            /\ (clientOf[i] = 0) <=> (req[i] = NoRequest)
            /\ (clientOf[i] # 0) =>
                /\ clientOf[i] \in DOMAIN clients
                /\ (clients[clientOf[i]] = "open") <=> (st[i] = "inflight")
            /\ \A j \in DOMAIN st :
                (i # j /\ clientOf[i] # 0) => (clientOf[i] # clientOf[j])
        /\ Len(clients) = Cardinality({i \in DOMAIN st : clientOf[i] # 0})
        /\ (pc = "returned") => \A c \in DOMAIN clients : clients[c] = "closed"

\* C10 witness: two requests, the first has ended and its client is closed while
\* the second is still in flight on another, open client.
C10_Witness ==
    /\ method \in AsyncMethods
    /\ Len(st) = 2
    /\ st[1] = "done" /\ st[2] = "inflight"
    /\ clientOf[1] # clientOf[2]
    /\ clients[clientOf[1]] = "closed" /\ clients[clientOf[2]] = "open"

=============================================================================
